---- MODULE Spec2Model ----
(***************************************************************************)
(* A state-machine model of the render service: the PQueue admission in    *)
(* MapScreenshotServer, processRenderTask and the renderer slots it uses,  *)
(* WebMaplibreGLRenderer.getMapImage with its retry loop, and the          *)
(* RendererBrowser supervisor (launch, crash detection, restart).          *)
(*                                                                         *)
(* One step of the model is one run of the JavaScript event loop: a        *)
(* handler runs from the event that wakes it (a request, a timer, a        *)
(* settled promise) up to its next await of an external event.             *)
(***************************************************************************)
EXTENDS Integers, Sequences, FiniteSets, TLC

\* ------------------------------------------------------------------------
\* Bounds of the model and constants of the program
\* ------------------------------------------------------------------------

\* rendererCount: the pool size given to the MapScreenshotServer constructor.
RendererCount == 2

\* Number of render requests the environment submits.
MaxTasks == 4

\* Number of WebMaplibreGLRenderer objects alive at the same time.
MaxObjs == 5

\* Number of disturbances in a run: failures of the engine, timer expiries,
\* aborted requests and health-check passes.
MaxFaults == 1

\* getMapImage: const maxRetries = 2.
RenderMaxRetries == 2

Tasks == 1..MaxTasks
Slots == 0..(RendererCount - 1)
Objs == 1..MaxObjs

\* Number of isReady() / newPage() calls made on one RendererBrowser.
MaxCallers == 2

\* Number of Browser objects one RendererBrowser launches.
MaxBrowsers == 3

\* Number of restartBrowser sequences that can be told apart at a time.
MaxRestarts == 2

\* options.maxRetries of the RendererBrowser a renderer creates.
MaxRetries == 3

Callers == 1..MaxCallers
Browsers == 1..MaxBrowsers
Restarts == 1..MaxRestarts

\* Number of calls of stop().
MaxStops == 2

StopCalls == 1..MaxStops

\* The fields of a renderer that cleanup() closes: renderer.page and the
\* Browser of renderer.browser.
Fields == {"page", "browser"}

VARIABLES
    task,                  \* per request: the RenderTask and the position of its processRenderTask
    queue,                 \* PQueue: the jobs waiting, in queue order
    renderers,             \* this.renderers: slot -> renderer object (0 is null)
    currentRendererIndex,  \* this.currentRendererIndex
    obj,                   \* per WebMaplibreGLRenderer object: its state
    bg,                    \* the initRenderer calls of start() and of the critical-error path
    hc,                    \* the health-check pass of the 30 s interval timer
    isShuttingDown,        \* MapScreenshotServer.isShuttingDown
    isPaused,              \* PQueue paused
    startPc,               \* position of start()
    stopPc,                \* position of stop()
    faults,                \* the disturbances so far, by kind, in order
    dispatched,            \* history: the tasks in the order processRenderTask started
    browser,               \* RendererBrowser.browser: a Browser object (0 is null)
    proc,                  \* per Browser object: its process ("none": not launched yet)
    isReadyPromise,        \* RendererBrowser.isReadyPromise
    rbShuttingDown,        \* RendererBrowser.isShuttingDown
    retryCount,            \* RendererBrowser.retryCount
    restartPromise,        \* RendererBrowser.restartPromise: the restart sequence whose
                           \* promise it holds (0 is null)
    restart,               \* the restartBrowser sequences
    boot,                  \* the initBrowser call of the constructor
    caller,                \* the calls of isReady() and newPage()
    closer,                \* the call of close()
    stopCall,              \* per call of stop(): where it stands
    cleanups,              \* the page.close() / browser.close() calls that the
                           \* cleanup() calls of stop() await
    nulled,                \* per renderer: the fields a cleanup() has set to null
    closeCalls,            \* history: per renderer and field, the calls of close()
                           \* made on the object the field holds
    route,                 \* per request: where the /render route stands before
                           \* addToRenderQueue
    shared,                \* src/server.ts, the server whose renderers share one
                           \* RendererBrowser: its slots and its 'disconnected' handlers
    req,                   \* one request body on its way from the /render route to
                           \* createMapImage of map.html
    sess,                  \* src/server.ts and src/renderer.ts: the calls that
                           \* processRenderTask makes on the pages of its renderers
    gs                     \* src/index.ts: gracefulShutdown and the process

\* The variables of the server and those of one RendererBrowser.
svars == <<task, queue, renderers, currentRendererIndex, obj, bg, hc,
           isShuttingDown, isPaused, startPc, stopPc, faults, dispatched>>

bvars == <<browser, proc, isReadyPromise, rbShuttingDown, retryCount, restartPromise,
           restart, boot, caller, closer>>

\* The variables of the cleanup() calls that stop() makes, and of the /render
\* route before addToRenderQueue.
cvars == <<stopCall, cleanups, nulled, closeCalls, route, shared, req, sess, gs>>

vars == <<svars, bvars, cvars>>

\* ------------------------------------------------------------------------
\* The RenderTask and its promise
\* ------------------------------------------------------------------------

\*   pc        where processRenderTask stands ("new": not submitted yet)
\*   idx       rendererIndex (-1 before getNextRendererIndex)
\*   rend      the local variable renderer (0 is null)
\*   attempt   getMapImage's attempt
\*   aborted   signal.aborted
\*   onabort   the running attempt's abort handler is in signal.onabort
\*   stale     the evaluate call of an attempt that timed out is still open
\*   outcome   the promise addToRenderQueue returned
\*   armed     the 120 s timer is set
\*   qto       the queue's timeout has ended the job of the running function
\*   acquired  history: calls of getNextRendererIndex made for the task
\*   late      history: the last call of resolve or reject that found the
\*             promise settled
\*   discarded history: page.evaluate returned an image for an aborted signal
\*   torn      history: the slot the task's catch block set to null and
\*             started reinitializeRenderer for (-1: none)
\*   err       history: what isCriticalError said of the error the task's
\*             catch block caught ("none", "opaque", "critical")
NewTask ==
    [pc |-> "new", idx |-> 0 - 1, rend |-> 0, attempt |-> 0,
     aborted |-> FALSE, onabort |-> FALSE, stale |-> FALSE,
     outcome |-> "pending", armed |-> FALSE, qto |-> FALSE, acquired |-> 0,
     late |-> "none", discarded |-> FALSE, torn |-> 0 - 1, err |-> "none"]

\* A promise whose every resolve and reject call takes effect.
SettleAgain(tk, how) == [tk EXCEPT !.outcome = how]

\* A promise settles once: resolve and reject of a settled promise do nothing.
Settle(tk, how) ==
    IF tk.outcome = "pending" THEN [tk EXCEPT !.outcome = how]
    ELSE [tk EXCEPT !.late = how]

\* processRenderTask returns; its locals are gone.
Return(tk) ==
    [tk EXCEPT !.pc = "done", !.idx = 0 - 1, !.rend = 0, !.attempt = 0,
               !.onabort = FALSE, !.stale = FALSE, !.armed = FALSE, !.qto = FALSE]

\* The PQueue job of a task: it ends when the function returns or when the
\* queue's timeout fires.
Job(tk) ==
    CASE tk.pc = "new" -> "none"
      [] tk.pc = "queued" -> "queued"
      [] tk.pc = "done" -> "ended"
      [] OTHER -> IF tk.qto THEN "ended" ELSE "running"

\* PQueue.pending: the jobs started and not ended.
Pending == Cardinality({t \in Tasks : Job(task[t]) = "running"})

\* processRenderTask invocations started and not yet returned.
Running == {t \in Tasks : task[t].pc \notin {"new", "queued", "done"}}

\* ------------------------------------------------------------------------
\* Renderer objects
\* ------------------------------------------------------------------------

\* The smallest free object id, 0 when none is free.
FreeObj(ob) ==
    IF \E o \in Objs : ob[o] = "free"
    THEN CHOOSE o \in Objs : ob[o] = "free" /\ \A p \in Objs : ob[p] = "free" => o <= p
    ELSE 0

\* The objects something still refers to: a slot, the local variable of a
\* running processRenderTask, an initRenderer call, the health-check pass.
Referenced(tk, rs, b, h) ==
    {rs[i] : i \in Slots} \cup {tk[t].rend : t \in Tasks} \cup {x.o : x \in b} \cup {h.o}

\* An object nothing refers to any more is forgotten.
Collect(ob, tk, rs, b, h) ==
    [o \in Objs |-> IF o \in Referenced(tk, rs, b, h) THEN ob[o] ELSE "free"]

\* getNextRendererIndex: the loop, from cursor cur after attempts rounds.
RECURSIVE ScanRenderers(_, _, _)
ScanRenderers(rs, cur, attempts) ==
    LET next == (cur + 1) % RendererCount IN
    IF rs[next] # 0 THEN next
    ELSE IF attempts + 1 < RendererCount THEN ScanRenderers(rs, next, attempts + 1)
    ELSE next

\* A round-robin that does not look at the slots.
getNextRendererIndexBlind(rs, cur) == (cur + 1) % RendererCount

getNextRendererIndex(rs, cur) == ScanRenderers(rs, cur, 0)

\* ------------------------------------------------------------------------
\* processRenderTask and getMapImage, as functions of a context
\*   c = [t: the task's number, tk: the task, rs: renderers, ob: obj, bg: bg,
\*        ok: the model's objects sufficed]
\* ------------------------------------------------------------------------

Ctx(t) ==
    [t |-> t, tk |-> task[t], rs |-> renderers, ob |-> obj, bg |-> bg, ok |-> TRUE]

Reject(c) == [c EXCEPT !.tk = Settle(@, "rejected")]

Resolve(c) == [c EXCEPT !.tk = Settle(@, "resolved")]

Finish(c) == [c EXCEPT !.tk = Return(@)]

\* clearTimeout(timeoutId) of the 120 s timer
ClearDeadline(c) == [c EXCEPT !.tk.armed = FALSE]

\* An object that initWithHTML / initializePage failed on or whose page was
\* closed for recovery: page = null, isInitialized = false.
MarkDown(ob, o) == [ob EXCEPT ![o] = IF @ = "closed" THEN @ ELSE "down"]

\* initRenderer(i) with renderers[i] null, up to its await of initWithHTML:
\* the slot holds a new renderer that is not initialized yet.
BeginInit(c, i) ==
    LET live == Collect(c.ob, [task EXCEPT ![c.t] = c.tk], c.rs, c.bg, hc)
        o == FreeObj(live)
    IN  IF o = 0 THEN [c EXCEPT !.ok = FALSE]
        ELSE [c EXCEPT !.rs[i] = o, !.ob = [live EXCEPT ![o] = "init"]]

\* this.reinitializeRenderer(i).catch(...): started and not awaited.
SpawnReinit(c, i) ==
    IF isShuttingDown THEN c
    ELSE LET c1 == BeginInit(c, i) IN
         IF c1.ok
         THEN [c1 EXCEPT !.bg = @ \cup {[i |-> i, o |-> c1.rs[i], by |-> "reinit"]},
                         !.tk.torn = i]
         ELSE c1

\* A catch block that tears down and reinitializes the slot after the task's.
CatchErrorOtherSlot(c, crit) ==
    LET c1 == ClearDeadline(c)
        j == (c.tk.idx + 1) % RendererCount
    IN  IF crit
        THEN IF c1.rs[j] # 0
             THEN [c1 EXCEPT !.tk.pc = "cleanup", !.tk.rend = c1.rs[j],
                             !.ob[c1.rs[j]] = "closed"]
             ELSE Finish(Reject(SpawnReinit(c1, j)))
        ELSE Finish(Reject(c1))

\* A catch block that rejects the task and leaves the slot alone whatever
\* isCriticalError says.
CatchErrorKeepSlot(c, crit) ==
    Finish(Reject([ClearDeadline(c) EXCEPT !.tk.err = IF crit THEN "critical" ELSE "opaque"]))

\* isCriticalError decided the error is critical (crit) or not; the catch
\* block of processRenderTask.
CatchError(c, crit) ==
    LET c1 == [ClearDeadline(c) EXCEPT !.tk.err = IF crit THEN "critical" ELSE "opaque"]
        i == c.tk.idx
    IN  IF crit
        THEN IF c1.rs[i] # 0
             THEN [c1 EXCEPT !.tk.pc = "cleanup", !.tk.rend = c1.rs[i],
                             !.ob[c1.rs[i]] = "closed"]
             ELSE Finish(Reject(SpawnReinit(c1, i)))
        ELSE Finish(Reject(c1))

\* attemptMapImageGeneration (attempt k) up to its first await: ensurePageReady
\* and then page.evaluate. A cleaned-up renderer fails at once, in both
\* attempts, with "Browser is shutting down", which is not critical.
StartAttempt(c, k) ==
    LET s == c.ob[c.tk.rend] IN
    IF s = "ready"
    THEN [c EXCEPT !.tk.pc = "render", !.tk.attempt = k, !.tk.onabort = TRUE]
    ELSE IF s = "closed"
    THEN CatchError([c EXCEPT !.tk.attempt = RenderMaxRetries], FALSE)
    ELSE [c EXCEPT !.tk.pc = "pageinit", !.tk.attempt = k]

\* The catch block in getMapImage's loop: the attempt failed with an error
\* that isBrowserRelatedError accepts (br) or not, and that isCriticalError
\* accepts (crit) or not.
AttemptFailed(c, br, crit) ==
    LET k == c.tk.attempt
        c0 == [c EXCEPT !.tk.onabort = FALSE]
    IN  IF c.tk.aborted THEN CatchError(c0, FALSE)
        ELSE IF br /\ k < RenderMaxRetries
        THEN [c0 EXCEPT !.tk.pc = "recover", !.ob = MarkDown(@, c.tk.rend)]
        ELSE IF k = RenderMaxRetries THEN CatchError(c0, crit)
        ELSE StartAttempt(c0, k + 1)

\* processRenderTask after its renderer is known: the abort check, the 120 s
\* timer and the call of getMapImage.
ProcessOn(c) ==
    IF c.tk.aborted THEN Finish(Reject(c))
    ELSE StartAttempt([c EXCEPT !.tk.armed = TRUE], 1)

\* processRenderTask without the check of its first lines.
ProcessStartUnchecked(c, cur) ==
    LET i == getNextRendererIndex(c.rs, cur)
        c1 == [c EXCEPT !.tk.idx = i, !.tk.acquired = @ + 1, !.tk.rend = c.rs[i]]
    IN  IF c.rs[i] = 0
        THEN LET c2 == BeginInit(c1, i) IN
             [c2 EXCEPT !.tk.pc = "init", !.tk.rend = c2.rs[i]]
        ELSE ProcessOn(c1)

\* processRenderTask from its start to its first await.
ProcessStart(c, cur) ==
    IF c.tk.aborted \/ isShuttingDown THEN Finish(Reject(c))
    ELSE LET i == getNextRendererIndex(c.rs, cur)
             c1 == [c EXCEPT !.tk.idx = i, !.tk.acquired = @ + 1, !.tk.rend = c.rs[i]]
         IN  IF c.rs[i] = 0
             THEN LET c2 == BeginInit(c1, i) IN
                  [c2 EXCEPT !.tk.pc = "init", !.tk.rend = c2.rs[i]]
             ELSE ProcessOn(c1)

Apply(t, c) ==
    /\ c.ok
    /\ task' = [task EXCEPT ![t] = c.tk]
    /\ renderers' = c.rs
    /\ bg' = c.bg
    /\ obj' = Collect(c.ob, task', renderers', bg', hc)
    /\ hc' = hc

\* A restartBrowser sequence:
\*   pc        where it stands ("none": the sequence does not exist)
\*   n         history: the attempts it has counted in retryCount
\*   launched  history: its calls of puppeteer.launch
\*   seen      history: the kinds of crash signal that found it in flight
NoRestart == [pc |-> "none", n |-> 0, launched |-> 0, seen |-> {}]

\* A call of isReady() or newPage():
\*   op      "isReady" or "newPage"
\*   pc      where the call stands
\*   target  the Browser object of its browser.newPage() call
\*   on      the restart sequence whose promise it awaits
\*   result  "ok" or "error" once it is over
\*   stale   history: it called browser.newPage() while a restart was in flight
NewCaller ==
    [op |-> "none", pc |-> "idle", target |-> 0, on |-> 0, result |-> "none",
     stale |-> FALSE]

\* ------------------------------------------------------------------------
\* The state after construction: of the server, and of one RendererBrowser
\* (its constructor has called initBrowser, which awaits puppeteer.launch)
\* ------------------------------------------------------------------------

HcIdle == [pc |-> "idle", i |-> 0, o |-> 0]

\* ------------------------------------------------------------------------
\* src/server.ts, processRenderTask: the calls made on a renderer's page
\* ------------------------------------------------------------------------

MaxSessions == 3

Sessions == 1..MaxSessions

\* Promise.all([setMapSize, setMapPosition, setMapStyle]): the calls in the
\* order of the array.
ConfigCalls == <<"viewport", "camera", "scene">>

\* The position of one processRenderTask and its calls: those issued, those
\* the page has run, and how many of these have settled.
NewSession == [pc |-> "new", idx |-> 0, iss |-> <<>>, log |-> <<>>, nd |-> 0]

\* ------------------------------------------------------------------------
\* src/index.ts: gracefulShutdown
\* ------------------------------------------------------------------------

MaxEvents == 3

\* isShuttingDown, shutdownTimeout, the calls of server.stop() made by
\* gracefulShutdown, the state of the awaited one, the exit code (-1: the
\* process runs), the signals and errors received and whether the 45 s timer
\* has fired.
NoShutdown == [flag |-> FALSE, timer |-> FALSE, stops |-> 0, stop |-> "none",
               exit |-> 0 - 1, seen |-> <<>>, forced |-> FALSE]

\* An optional field the request body does not have.
Undefined == 0 - 999

\* The request bodies: width, height, quality and ratio (in hundredths) of a
\* body whose other fields are valid.
Bodies ==
    [width : {9, 10, 6000, 6001},
     height : {9, 10, 4000, 4001, 6000, 6001},
     quality : {Undefined, 0 - 1, 0, 1, 50, 100, 101},
     ratio : {Undefined, 0 - 1, 0, 50, 100, 800, 801}]

\* RequestSchema.safeParse(body).success: width and height are integers in
\* 10..6000, quality is a number in 0..100, ratio a number in 0..8, each of
\* them optional.
SafeParse(b) ==
    /\ b.width = Undefined \/ (10 <= b.width /\ b.width <= 6000)
    /\ b.height = Undefined \/ (10 <= b.height /\ b.height <= 6000)
    /\ b.quality = Undefined \/ (0 <= b.quality /\ b.quality <= 100)
    /\ b.ratio = Undefined \/ (0 <= b.ratio /\ b.ratio <= 800)

\* src/server.ts, constructor: this.browser.browser?.on("disconnected", ...)
\* adds the handler that calls restart() to Browser object g, when there is
\* one (0 is null).
OnDisconnected(h, g) == IF g # 0 THEN h \cup {g} ELSE h

Init ==
    /\ task = [t \in Tasks |-> NewTask]
    /\ queue = <<>>
    /\ renderers = [i \in Slots |-> 0]
    /\ currentRendererIndex = 0
    /\ obj = [o \in Objs |-> "free"]
    /\ bg = {}
    /\ hc = HcIdle
    /\ isShuttingDown = FALSE
    /\ isPaused = FALSE
    /\ startPc = "idle"
    /\ stopPc = "idle"
    /\ faults = <<>>
    /\ dispatched = <<>>
    /\ browser = 0
    /\ proc = [g \in Browsers |-> "none"]
    /\ isReadyPromise = "pending"
    /\ rbShuttingDown = FALSE
    /\ retryCount = 0
    /\ restartPromise = 0
    /\ restart = [s \in Restarts |-> NoRestart]
    /\ boot = "launching"
    /\ caller = [c \in Callers |-> NewCaller]
    /\ closer = "idle"
    /\ stopCall = [k \in StopCalls |-> "idle"]
    /\ cleanups = {}
    /\ nulled = [o \in Objs |-> {}]
    /\ closeCalls = [o \in Objs |-> [r \in Fields |-> 0]]
    /\ route = [t \in Tasks |-> "none"]
    /\ req = [body |-> [width |-> Undefined, height |-> Undefined, quality |-> Undefined,
                        ratio |-> Undefined],
              pc |-> "none", quality |-> Undefined, ratio |-> Undefined]
    /\ shared = [slots |-> [i \in Slots |-> 0], handler |-> OnDisconnected({}, browser)]
    /\ sess = [cur |-> 0, page |-> [i \in Slots |-> "none"], chan |-> [i \in Slots |-> <<>>],
               tk |-> [t \in Sessions |-> NewSession]]
    /\ gs = NoShutdown

\* ------------------------------------------------------------------------
\* PQueue
\* ------------------------------------------------------------------------

frame == <<queue, currentRendererIndex, isShuttingDown, isPaused, startPc, stopPc,
           dispatched, bvars, cvars>>

noTask == <<queue, renderers, currentRendererIndex, obj, bg, hc, isShuttingDown,
            isPaused, startPc, stopPc, dispatched, bvars, cvars>>

\* One more disturbance, of the given kind, within the bound.
Fault(kind) == Len(faults) < MaxFaults /\ faults' = Append(faults, kind)

NoFault == faults' = faults

\* A call on renderer o fails: a disturbance, unless the renderer has been
\* cleaned up, which makes the call fail by itself.
Broken(o) == IF obj[o] = "closed" THEN NoFault ELSE Fault("init")

\* An enqueue in front of the jobs waiting.
EnqueueFirst(q, t) == <<t>> \o q

\* PQueue's enqueue with priority 0 for every job: behind the jobs waiting.
Enqueue(q, t) == Append(q, t)

\* PQueue's tryToStartAnother would start a job. It runs at the end of add()
\* and of every job, before any other event is handled.
CanDispatch == queue # <<>> /\ ~isPaused /\ Pending < RendererCount

\* The /render route past validation: addToRenderQueue. Requests are numbered
\* in the order they arrive. startServer calls start() in the turn that
\* constructs the server, so no request is handled before it.
Submit(t) ==
    /\ ~CanDispatch
    /\ ~isShuttingDown
    /\ startPc # "idle"
    /\ task[t].pc = "new"
    /\ \A u \in Tasks : u < t => task[u].pc # "new"
    /\ task' = [task EXCEPT ![t].pc = "queued"]
    /\ queue' = Enqueue(queue, t)
    /\ UNCHANGED <<bvars, cvars, renderers, currentRendererIndex, obj, bg, hc, isShuttingDown,
                   isPaused, startPc, stopPc, faults, dispatched>>

\* The queue starts its first waiting job: processRenderTask runs to its
\* first await.
Dispatch ==
    /\ CanDispatch
    /\ LET t == Head(queue)
           c == ProcessStart(Ctx(t), currentRendererIndex)
       IN  /\ Apply(t, c)
           /\ currentRendererIndex' =
                 IF c.tk.acquired > 0
                 THEN getNextRendererIndex(renderers, currentRendererIndex)
                 ELSE currentRendererIndex
           /\ dispatched' = Append(dispatched, t)
    /\ queue' = Tail(queue)
    /\ UNCHANGED <<bvars, cvars, isShuttingDown, isPaused, startPc, stopPc, faults>>

\* The queue's own timeout (180 s, throwOnTimeout) of a job whose function is
\* still running: the job ends, add() rejects and .catch(reject) rejects the
\* task. The function is not cancelled.
QueueTimeout(t) ==
    /\ ~CanDispatch
    /\ Job(task[t]) = "running"
    /\ Fault("queue")
    /\ task' = [task EXCEPT ![t] = [Settle(@, "rejected") EXCEPT !.qto = TRUE]]
    /\ UNCHANGED noTask

\* ------------------------------------------------------------------------
\* processRenderTask
\* ------------------------------------------------------------------------

\* The lazy initRenderer of a dispatched task settles. On success the task
\* reads renderers[idx] again.
InitDone(t, ok, crit) ==
    /\ ~CanDispatch
    /\ task[t].pc = "init"
    /\ LET c == Ctx(t)
           o == c.tk.rend
           i == c.tk.idx
       IN  IF ok
           THEN /\ obj[o] # "closed"
                /\ ~crit
                /\ NoFault
                /\ LET c1 == [c EXCEPT !.ob[o] = "ready", !.tk.rend = c.rs[i]] IN
                   Apply(t, IF c.rs[i] = 0 THEN CatchError(c1, FALSE) ELSE ProcessOn(c1))
           ELSE /\ Broken(o)
                /\ Apply(t, CatchError([c EXCEPT !.ob = MarkDown(@, o), !.rs[i] = 0], crit))
    /\ UNCHANGED frame

\* initializePage, awaited by ensurePageReady in an attempt, settles.
PageInitDone(t, ok, br, crit) ==
    /\ ~CanDispatch
    /\ task[t].pc = "pageinit"
    /\ LET c == Ctx(t)
           o == c.tk.rend
       IN  IF ok
           THEN /\ obj[o] # "closed"
                /\ ~br /\ ~crit
                /\ NoFault
                /\ Apply(t, [c EXCEPT !.ob[o] = "ready", !.tk.pc = "render",
                                      !.tk.onabort = TRUE])
           ELSE /\ Broken(o)
                /\ Apply(t, AttemptFailed([c EXCEPT !.ob = MarkDown(@, o)], br, crit))
    /\ UNCHANGED frame

\* page.evaluate returns the image and the image is delivered whatever the
\* signal says.
EvaluateReturnKeepsImage(t) ==
    /\ ~CanDispatch
    /\ task[t].pc = "render"
    /\ obj[task[t].rend] \in {"ready", "down"}
    /\ Apply(t, Finish(Resolve(ClearDeadline([Ctx(t) EXCEPT !.tk.onabort = FALSE]))))
    /\ NoFault
    /\ UNCHANGED frame

\* page.evaluate returns the image: attemptMapImageGeneration resolves unless
\* the signal is aborted; processRenderTask resolves the task and returns.
\* The call was made on the page the renderer had then: it can return after a
\* failed initializePage has dropped the renderer's page.
EvaluateReturn(t) ==
    /\ ~CanDispatch
    /\ task[t].pc = "render"
    /\ obj[task[t].rend] \in {"ready", "down"}
    /\ LET c == [Ctx(t) EXCEPT !.tk.onabort = FALSE] IN
       IF c.tk.aborted
       THEN Apply(t, AttemptFailed([c EXCEPT !.tk.discarded = TRUE], FALSE, FALSE))
       ELSE Apply(t, Finish(Resolve(ClearDeadline(c))))
    /\ NoFault
    /\ UNCHANGED frame

\* page.evaluate rejects: a disturbance, unless the page has been closed or
\* the attempt is the retry of one that failed (what failed the first attempt
\* can fail the retry as well).
EvaluateFail(t, br, crit) ==
    /\ ~CanDispatch
    /\ task[t].pc = "render"
    /\ IF obj[task[t].rend] = "ready" /\ task[t].attempt = 1 THEN Fault("evaluate") ELSE NoFault
    /\ Apply(t, AttemptFailed(Ctx(t), br, crit))
    /\ UNCHANGED frame

\* The 60 s timer of attemptMapImageGeneration: "Map image generation
\* timeout" is critical and not browser-related. The evaluate call goes on.
AttemptTimeout(t) ==
    /\ ~CanDispatch
    /\ task[t].pc = "render"
    /\ Fault("attempt")
    /\ Apply(t, AttemptFailed([Ctx(t) EXCEPT !.tk.stale = TRUE], FALSE, TRUE))
    /\ UNCHANGED frame

\* The evaluate call of an attempt that timed out settles during the next
\* attempt: its continuation sets abortSignal.onabort = null.
StaleEvaluateDone(t) ==
    /\ ~CanDispatch
    /\ task[t].pc = "render"
    /\ task[t].stale
    /\ task' = [task EXCEPT ![t].stale = FALSE, ![t].onabort = FALSE]
    /\ NoFault
    /\ UNCHANGED noTask

\* handleBrowserError is over: the loop continues with the next attempt.
RecoverDone(t) ==
    /\ ~CanDispatch
    /\ task[t].pc = "recover"
    /\ Apply(t, StartAttempt(Ctx(t), task[t].attempt + 1))
    /\ NoFault
    /\ UNCHANGED frame

\* The cleanup() awaited in the critical-error path is over: the slot is set
\* to null, reinitializeRenderer is started and the task is rejected.
CleanupDone(t) ==
    /\ ~CanDispatch
    /\ task[t].pc = "cleanup"
    /\ LET c == Ctx(t)
           i == c.tk.idx
       IN  Apply(t, Finish(Reject(SpawnReinit([c EXCEPT !.rs[i] = 0, !.tk.rend = 0], i))))
    /\ NoFault
    /\ UNCHANGED frame

\* The 120 s timer of processRenderTask.
Deadline(t) ==
    /\ ~CanDispatch
    /\ task[t].armed
    /\ Fault("deadline")
    /\ task' = [task EXCEPT ![t] = [Settle(@, "rejected") EXCEPT !.armed = FALSE]]
    /\ UNCHANGED noTask

\* The request's signal aborts. The handler of a running attempt rejects it.
Abort(t) ==
    /\ ~CanDispatch
    /\ task[t].pc \notin {"new", "done"}
    /\ ~task[t].aborted
    /\ LET c == [Ctx(t) EXCEPT !.tk.aborted = TRUE] IN
       IF c.tk.pc = "render" /\ c.tk.onabort
       THEN Apply(t, AttemptFailed(c, FALSE, FALSE))
       ELSE Apply(t, c)
    /\ Fault("abort")
    /\ UNCHANGED frame

\* ------------------------------------------------------------------------
\* initRenderer calls that no processRenderTask awaits
\* ------------------------------------------------------------------------

\* A context for code that runs outside any processRenderTask.
SrvCtx == Ctx(1)

\* initRenderer(i) past its isShuttingDown check, up to its first await: of
\* cleanup() when the slot holds a renderer, else of initWithHTML on a new
\* one. The result is the context and the call's position.
EnterInit(c, i) ==
    IF c.rs[i] # 0
    THEN [c |-> [c EXCEPT !.ob[c.rs[i]] = "closed"], ph |-> "cleanup", o |-> c.rs[i]]
    ELSE LET c1 == BeginInit(c, i) IN [c |-> c1, ph |-> "init", o |-> c1.rs[i]]

\* initRenderer(i) after its await of cleanup(): the slot is set to null and
\* then holds a new renderer.
AfterCleanup(c, i) == BeginInit([c EXCEPT !.rs[i] = 0], i)

\* start() up to its await of Promise.all: initRenderer(i) for every slot.
\* Every slot is null: start() runs before any request is handled.
RECURSIVE StartInits(_, _)
StartInits(c, i) ==
    IF i = RendererCount THEN c
    ELSE LET c1 == BeginInit(c, i) IN
         IF c1.ok
         THEN StartInits([c1 EXCEPT !.bg = @ \cup {[i |-> i, o |-> c1.rs[i],
                                                    by |-> "start"]}], i + 1)
         ELSE c1

StartBegin ==
    /\ startPc = "idle"
    /\ ~isShuttingDown
    /\ LET c == StartInits(SrvCtx, 0) IN
       /\ c.ok
       /\ renderers' = c.rs
       /\ bg' = c.bg
       /\ obj' = Collect(c.ob, task, renderers', bg', hc)
    /\ startPc' = "running"
    /\ UNCHANGED <<bvars, cvars, task, queue, currentRendererIndex, hc, isShuttingDown, isPaused,
                   stopPc, faults, dispatched>>

\* start() past its await of Promise.all, which settles in the turn in which
\* the last initRenderer call of start() settles (open: the calls still
\* open): start() returns, or throws when no slot holds a renderer.
StartDone(rs, open) ==
    IF \E b \in open : b.by = "start" THEN "running"
    ELSE IF \E i \in Slots : rs[i] # 0 THEN "ok" ELSE "failed"

\* initWithHTML, awaited by an initRenderer call, settles. A failure sets the
\* slot to null: initRenderer's catch, and reinitializeRenderer's.
BgInitDone(b, ok) ==
    /\ ~CanDispatch
    /\ b \in bg
    /\ IF ok
       THEN /\ obj[b.o] # "closed"
            /\ NoFault
            /\ renderers' = renderers
            /\ bg' = bg \ {b}
            /\ obj' = Collect([obj EXCEPT ![b.o] = "ready"], task, renderers', bg', hc)
       ELSE /\ Broken(b.o)
            /\ renderers' = [renderers EXCEPT ![b.i] = 0]
            /\ bg' = bg \ {b}
            /\ obj' = Collect(MarkDown(obj, b.o), task, renderers', bg', hc)
    /\ startPc' = IF b.by = "start" THEN StartDone(renderers', bg') ELSE startPc
    /\ UNCHANGED <<bvars, cvars, task, queue, currentRendererIndex, hc, isShuttingDown, isPaused,
                   stopPc, dispatched>>

\* ------------------------------------------------------------------------
\* The health monitor
\* ------------------------------------------------------------------------

\* performHealthCheck's loop from slot `from`: the next slot that holds a
\* renderer is probed; the pass ends when there is none or on shutdown.
HcNext(rs, from) ==
    LET cand == {j \in Slots : j >= from /\ rs[j] # 0} IN
    IF isShuttingDown \/ cand = {} THEN HcIdle
    ELSE LET j == CHOOSE x \in cand : \A y \in cand : x <= y IN
         [pc |-> "probe", i |-> j, o |-> rs[j]]

\* The interval timer fires and no earlier pass is still running.
HealthTick ==
    /\ ~CanDispatch
    /\ hc.pc = "idle"
    /\ stopPc = "idle"
    /\ startPc # "idle"
    /\ hc' = HcNext(renderers, 0)
    /\ hc' # HcIdle
    /\ Fault("health")
    /\ UNCHANGED <<bvars, cvars, task, queue, renderers, currentRendererIndex, obj, bg,
                   isShuttingDown, isPaused, startPc, stopPc, dispatched>>

\* renderer.healthCheck() settles. A renderer that is not initialized is
\* never healthy; an unhealthy one is reinitialized before the loop goes on.
HcProbeDone(healthy) ==
    /\ ~CanDispatch
    /\ hc.pc = "probe"
    /\ IF healthy
       THEN /\ obj[hc.o] = "ready"
            /\ NoFault
            /\ hc' = HcNext(renderers, hc.i + 1)
            /\ renderers' = renderers
            /\ obj' = Collect(obj, task, renderers, bg, hc')
       ELSE /\ IF obj[hc.o] = "ready" THEN Fault("probe") ELSE NoFault
            /\ IF isShuttingDown
               THEN /\ hc' = HcIdle
                    /\ renderers' = renderers
                    /\ obj' = Collect(obj, task, renderers, bg, hc')
               ELSE LET e == EnterInit(SrvCtx, hc.i) IN
                    /\ e.c.ok
                    /\ hc' = [pc |-> e.ph, i |-> hc.i, o |-> e.o]
                    /\ renderers' = e.c.rs
                    /\ obj' = Collect(e.c.ob, task, renderers', bg, hc')
    /\ UNCHANGED <<bvars, cvars, task, queue, currentRendererIndex, bg, isShuttingDown, isPaused,
                   startPc, stopPc, dispatched>>

\* The cleanup() awaited by the pass's initRenderer is over.
HcCleanupDone ==
    /\ ~CanDispatch
    /\ hc.pc = "cleanup"
    /\ LET c == AfterCleanup(SrvCtx, hc.i) IN
       /\ c.ok
       /\ hc' = [pc |-> "init", i |-> hc.i, o |-> c.rs[hc.i]]
       /\ renderers' = c.rs
       /\ obj' = Collect(c.ob, task, renderers', bg, hc')
    /\ UNCHANGED <<bvars, cvars, task, queue, currentRendererIndex, bg, isShuttingDown, isPaused,
                   startPc, stopPc, faults, dispatched>>

\* The initWithHTML awaited by the pass's initRenderer settles.
HcInitDone(ok) ==
    /\ ~CanDispatch
    /\ hc.pc = "init"
    /\ IF ok
       THEN /\ obj[hc.o] # "closed"
            /\ NoFault
            /\ renderers' = renderers
            /\ hc' = HcNext(renderers', hc.i + 1)
            /\ obj' = Collect([obj EXCEPT ![hc.o] = "ready"], task, renderers', bg, hc')
       ELSE /\ Broken(hc.o)
            /\ renderers' = [renderers EXCEPT ![hc.i] = 0]
            /\ hc' = HcNext(renderers', hc.i + 1)
            /\ obj' = Collect(MarkDown(obj, hc.o), task, renderers', bg, hc')
    /\ UNCHANGED <<bvars, cvars, task, queue, currentRendererIndex, bg, isShuttingDown, isPaused,
                   startPc, stopPc, dispatched>>

\* ------------------------------------------------------------------------
\* stop()
\* ------------------------------------------------------------------------

\* stop() up to its await of the race of onIdle() and the 30 s timer.
StopBegin ==
    /\ ~CanDispatch
    /\ stopPc = "idle"
    /\ isShuttingDown' = TRUE
    /\ isPaused' = TRUE
    /\ stopPc' = "wait"
    /\ UNCHANGED <<bvars, cvars, task, queue, renderers, currentRendererIndex, obj, bg, hc, startPc,
                   faults, dispatched>>

\* PQueue.onIdle(): nothing waits and nothing runs.
QueueIdle == queue = <<>> /\ Pending = 0

\* The race is over (idle, or the 30 s timer): cleanup() of every renderer.
StopWake(byTimer) ==
    /\ stopPc = "wait"
    /\ byTimer \/ QueueIdle
    /\ stopPc' = "cleaning"
    /\ obj' = [o \in Objs |-> IF o \in {renderers[i] : i \in Slots} THEN "closed" ELSE obj[o]]
    /\ UNCHANGED <<bvars, cvars, task, queue, renderers, currentRendererIndex, bg, hc,
                   isShuttingDown, isPaused, startPc, faults, dispatched>>

\* The cleanups are over: this.renderers = new Array(rendererCount).fill(null).
StopDone ==
    /\ stopPc = "cleaning"
    /\ stopPc' = "done"
    /\ renderers' = [i \in Slots |-> 0]
    /\ obj' = Collect(obj, task, renderers', bg, hc)
    /\ UNCHANGED <<bvars, cvars, task, queue, currentRendererIndex, bg, hc, isShuttingDown,
                   isPaused, startPc, faults, dispatched>>

\* ------------------------------------------------------------------------
\* RendererBrowser: launch, crash detection and restart
\*   b = [browser, proc, retryCount, restartPromise, restart, shut, ok]: the
\*   state the restart code works on (shut: this.isShuttingDown; ok: the
\*   model's sequences sufficed)
\* ------------------------------------------------------------------------

BState ==
    [browser |-> browser, proc |-> proc, retryCount |-> retryCount,
     restartPromise |-> restartPromise, restart |-> restart,
     shut |-> rbShuttingDown, ok |-> TRUE]

SetB(b) ==
    /\ b.ok
    /\ browser' = b.browser
    /\ proc' = b.proc
    /\ retryCount' = b.retryCount
    /\ restartPromise' = b.restartPromise
    /\ restart' = b.restart

\* The restart sequences that have started and not ended.
InFlight(rs) == {s \in Restarts : rs[s].pc \in {"delay", "closing", "launching"}}

\* this.restartPromise is set and its promise is pending / rejected.
RestartPending(b) == b.restartPromise # 0 /\ b.restartPromise \in InFlight(b.restart)

RestartRejected(b) == b.restartPromise # 0 /\ b.restart[b.restartPromise].pc = "failed"

\* A sequence number for a new restart sequence, 0 when none is left.
FreeRestart(b) ==
    LET free == {s \in Restarts : s \notin InFlight(b.restart) /\ s # b.restartPromise} IN
    IF free = {} THEN 0 ELSE CHOOSE s \in free : \A r \in free : s <= r

\* The smallest Browser object not launched yet, 0 when none is left.
FreeBrowser(pr) ==
    LET free == {g \in Browsers : pr[g] = "none"} IN
    IF free = {} THEN 0 ELSE CHOOSE g \in free : \A h \in free : g <= h

\* restartBrowser of sequence s, up to its await of the retry delay: it throws
\* when retryCount has reached maxRetries, else it counts the attempt.
restartBrowser(b, s) ==
    IF b.retryCount >= MaxRetries
    THEN [b EXCEPT !.restart[s].pc = "failed"]
    ELSE [b EXCEPT !.retryCount = @ + 1,
                   !.restart[s].pc = "delay", !.restart[s].n = @ + 1]

\* A crash signal of the given kind found a restart in flight.
NoteSignal(b, kind) ==
    [b EXCEPT !.restart = [s \in Restarts |->
        IF s \in InFlight(b.restart) THEN [b.restart[s] EXCEPT !.seen = @ \cup {kind}]
        ELSE b.restart[s]]]

\* handleBrowserCrash without the check of restartPromise.
handleBrowserCrashUnguarded(b, kind) ==
    IF b.shut THEN [b |-> NoteSignal(b, kind), s |-> 0]
    ELSE LET s == FreeRestart(b) IN
         IF s = 0 THEN [b |-> [b EXCEPT !.ok = FALSE], s |-> 0]
         ELSE [b |-> restartBrowser(
                        [b EXCEPT !.restartPromise = s,
                                  !.restart[s] = [pc |-> "new", n |-> 0, launched |-> 0,
                                                  seen |-> {}]], s),
               s |-> s]

\* handleBrowserCrash up to its await of restartPromise: the state after it
\* and the sequence it started (0: it returned at once).
handleBrowserCrash(b, kind) ==
    IF b.shut \/ b.restartPromise # 0 THEN [b |-> NoteSignal(b, kind), s |-> 0]
    ELSE LET s == FreeRestart(b) IN
         IF s = 0 THEN [b |-> [b EXCEPT !.ok = FALSE], s |-> 0]
         ELSE [b |-> restartBrowser(
                        [b EXCEPT !.restartPromise = s,
                                  !.restart[s] = [pc |-> "new", n |-> 0, launched |-> 0,
                                                  seen |-> {}]], s),
               s |-> s]

Over(cl, how) == [cl EXCEPT !.pc = "done", !.result = how, !.on = 0]

\* this.browser.newPage() is called; pc tells which of newPage's two calls.
Issue(b, cl, pc) ==
    [cl EXCEPT !.pc = pc, !.target = b.browser, !.on = 0,
               !.stale = @ \/ RestartPending(b)]

\* isReady() has returned: the call is over, or newPage goes on.
AfterIsReady(b, cl) ==
    IF cl.op = "isReady" THEN Over(cl, "ok")
    ELSE IF b.browser = 0 THEN Over(cl, "error")
    ELSE Issue(b, cl, "creating")

\* isReady() past its await of restartPromise.
AfterRestartWait(b, cl, ready) ==
    IF ready = "none" THEN AfterIsReady(b, cl) ELSE [cl EXCEPT !.pc = "waitReady", !.on = 0]

\* isReady() from its start to its first await.
isReady(b, cl) ==
    IF b.shut THEN Over(cl, "error")
    ELSE IF RestartPending(b) THEN [cl EXCEPT !.pc = "waitRestart", !.on = b.restartPromise]
    ELSE IF RestartRejected(b) THEN Over(cl, "error")
    ELSE AfterRestartWait(b, cl, isReadyPromise)

\* The catch block of newPage for an error that names a dead browser: the
\* state and the call after it.
CatchDeadBrowser(b, cl) ==
    LET h == handleBrowserCrash(b, "newPage") IN
    IF h.s # 0
    THEN [b |-> h.b,
          cl |-> IF h.b.restart[h.s].pc = "failed" THEN Over(cl, "error")
                 ELSE [cl EXCEPT !.pc = "crashwait", !.on = h.s]]
    ELSE [b |-> h.b,
          cl |-> IF h.b.browser # 0 THEN Issue(h.b, cl, "retry") ELSE Over(cl, "error")]

\* The calls in flight on Browser object g are rejected, call c and the ones
\* after it: the first call of newPage goes to the catch block, the second
\* one ends newPage.
RECURSIVE RejectCalls(_, _, _, _)
RejectCalls(b, cs, g, c) ==
    IF c > MaxCallers THEN [b |-> b, cs |-> cs]
    ELSE IF cs[c].target = g /\ cs[c].pc = "creating"
    THEN LET r == CatchDeadBrowser(b, cs[c]) IN
         RejectCalls(r.b, [cs EXCEPT ![c] = r.cl], g, c + 1)
    ELSE IF cs[c].target = g /\ cs[c].pc = "retry"
    THEN RejectCalls(b, [cs EXCEPT ![c] = Over(@, "error")], g, c + 1)
    ELSE RejectCalls(b, cs, g, c + 1)

\* The process of Browser object g ends: puppeteer emits 'disconnected', whose
\* handler runs first, and rejects the calls in flight.
Disconnect(b, cs, g) ==
    LET b1 == [b EXCEPT !.proc[g] = "dead"]
        b2 == IF b.shut THEN b1 ELSE handleBrowserCrash(b1, "disconnected").b
    IN  RejectCalls(b2, cs, g, 1)

\* Restart sequence s has ended: the calls that await its promise go on.
WakeCallers(b, cs, s, ok) ==
    [c \in Callers |->
        IF cs[c].on # s THEN cs[c]
        ELSE IF ~ok THEN Over(cs[c], "error")
        ELSE IF cs[c].pc = "waitRestart" THEN AfterRestartWait(b, cs[c], isReadyPromise)
        ELSE IF b.browser # 0 THEN Issue(b, cs[c], "retry")
        ELSE Over(cs[c], "error")]

\* A catch block of restartBrowser that tries again whatever retryCount is.
AttemptFailedInNoLimit(b, s) ==
    [b EXCEPT !.retryCount = @ + 1, !.restart[s].pc = "delay", !.restart[s].n = @ + 1]

\* The catch block of restartBrowser: one more attempt, or the sequence fails
\* and with it the promise in restartPromise, which stays set.
AttemptFailedIn(b, s) ==
    IF b.retryCount < MaxRetries THEN restartBrowser(b, s)
    ELSE [b EXCEPT !.restart[s].pc = "failed"]

\* initBrowser called by restartBrowser, up to its await of puppeteer.launch.
initBrowser(b, s) ==
    IF b.shut THEN AttemptFailedIn(b, s)
    ELSE [b EXCEPT !.restart[s].pc = "launching", !.restart[s].launched = @ + 1]

\* The state and the calls after a step of sequence s.
AfterRestartStep(b, cs, s) ==
    /\ SetB(b)
    /\ caller' = IF b.restart[s].pc = "failed" THEN WakeCallers(b, cs, s, FALSE) ELSE cs

bframe == <<isReadyPromise, rbShuttingDown, boot, closer, svars, cvars>>

\* The calls of puppeteer.launch the constructor makes: initializeBrowser
\* calls initBrowser once and has no catch block that calls it again.
BootLaunches == 1

\* The constructor's initBrowser settles: puppeteer.launch returned or threw.
BootDone(ok) ==
    /\ boot = "launching"
    /\ LET g == FreeBrowser(proc)
           b == [BState EXCEPT !.browser = g, !.proc[g] = "up", !.retryCount = 0]
       IN  IF ok
           THEN /\ SetB(b)
                /\ boot' = "ok"
                /\ caller' = [c \in Callers |->
                                IF caller[c].pc = "waitReady" THEN AfterIsReady(b, caller[c])
                                ELSE caller[c]]
           ELSE /\ SetB(BState)
                /\ boot' = "failed"
                /\ caller' = [c \in Callers |->
                                IF caller[c].pc = "waitReady" THEN Over(caller[c], "error")
                                ELSE caller[c]]
    /\ isReadyPromise' = "none"
    /\ UNCHANGED <<rbShuttingDown, closer, svars, cvars>>

\* A call of isReady() or of newPage(), up to its first await.
Call(c, op) ==
    /\ caller[c].pc = "idle"
    /\ \A d \in Callers : d < c => caller[d].pc # "idle"
    /\ caller' = [caller EXCEPT ![c] = isReady(BState, [@ EXCEPT !.op = op])]
    /\ UNCHANGED <<browser, proc, retryCount, restartPromise, restart, bframe>>

\* The first browser.newPage() of a newPage call settles: with a page, with an
\* error that names a dead browser (dead), or with another error.
CreateDone(c, ok, dead) ==
    /\ caller[c].pc = "creating"
    /\ IF ok
       THEN /\ proc[caller[c].target] = "up"
            /\ ~dead
            /\ caller' = [caller EXCEPT ![c] = Over(@, "ok")]
            /\ UNCHANGED <<browser, proc, retryCount, restartPromise, restart>>
       ELSE IF dead
       THEN LET r == CatchDeadBrowser(BState, caller[c]) IN
            /\ SetB(r.b)
            /\ caller' = [caller EXCEPT ![c] = r.cl]
       ELSE /\ caller' = [caller EXCEPT ![c] = Over(@, "error")]
            /\ UNCHANGED <<browser, proc, retryCount, restartPromise, restart>>
    /\ UNCHANGED bframe

\* The second browser.newPage() of a newPage call settles.
RetryDone(c, ok) ==
    /\ caller[c].pc = "retry"
    /\ ok => proc[caller[c].target] = "up"
    /\ caller' = [caller EXCEPT ![c] = Over(@, IF ok THEN "ok" ELSE "error")]
    /\ UNCHANGED <<browser, proc, retryCount, restartPromise, restart, bframe>>

\* The process of Browser object g dies.
Crash(g) ==
    /\ proc[g] = "up"
    /\ LET r == Disconnect(BState, caller, g) IN
       /\ SetB(r.b)
       /\ caller' = r.cs
    /\ UNCHANGED bframe

\* restartBrowser: the retry delay is over. The old browser is closed, or,
\* when there is none, initBrowser is called.
RestartDelayDone(s) ==
    /\ restart[s].pc = "delay"
    /\ IF browser # 0
       THEN LET b == [BState EXCEPT !.restart[s].pc = "closing"]
                r == IF proc[browser] = "up" THEN Disconnect(b, caller, browser)
                     ELSE [b |-> b, cs |-> caller]
            IN  AfterRestartStep(r.b, r.cs, s)
       ELSE AfterRestartStep(initBrowser(BState, s), caller, s)
    /\ UNCHANGED bframe

\* restartBrowser: browser.close() of the old browser is over.
RestartCloseDone(s) ==
    /\ restart[s].pc = "closing"
    /\ AfterRestartStep(initBrowser([BState EXCEPT !.browser = 0], s), caller, s)
    /\ UNCHANGED bframe

\* restartBrowser: puppeteer.launch settles. On success handleBrowserCrash
\* sets restartPromise to null and the waiting calls go on.
RestartLaunchDone(s, ok) ==
    /\ restart[s].pc = "launching"
    /\ IF ok
       THEN LET g == FreeBrowser(proc)
                b == [BState EXCEPT !.browser = g, !.proc[g] = "up", !.retryCount = 0,
                                    !.restart[s].pc = "ok", !.restartPromise = 0]
            IN  /\ g # 0
                /\ SetB(b)
                /\ caller' = WakeCallers(b, caller, s, TRUE)
       ELSE AfterRestartStep(AttemptFailedIn(BState, s), caller, s)
    /\ UNCHANGED bframe

\* close() that calls browser.close() with isShuttingDown as it was before
\* the call.
CloseNowFlagLate ==
    IF browser # 0
    THEN LET r == IF proc[browser] = "up" THEN Disconnect(BState, caller, browser)
                  ELSE [b |-> BState, cs |-> caller]
         IN  /\ SetB(r.b)
             /\ caller' = r.cs
             /\ closer' = "closing"
    ELSE /\ closer' = "done"
         /\ UNCHANGED <<browser, proc, retryCount, restartPromise, restart, caller>>

\* close() past its await of restartPromise: browser.close(), with
\* isShuttingDown set.
CloseNow ==
    IF browser # 0
    THEN LET b == [BState EXCEPT !.shut = TRUE]
             r == IF proc[browser] = "up" THEN Disconnect(b, caller, browser)
                  ELSE [b |-> b, cs |-> caller]
         IN  /\ SetB(r.b)
             /\ caller' = r.cs
             /\ closer' = "closing"
    ELSE /\ closer' = "done"
         /\ UNCHANGED <<browser, proc, retryCount, restartPromise, restart, caller>>

\* close() of the RendererBrowser, up to its first await.
BrowserClose ==
    /\ closer = "idle"
    /\ rbShuttingDown' = TRUE
    /\ IF RestartPending(BState)
       THEN /\ closer' = "wait"
            /\ UNCHANGED <<browser, proc, retryCount, restartPromise, restart, caller>>
       ELSE CloseNow
    /\ UNCHANGED <<isReadyPromise, boot, svars, cvars>>

\* close(): the restart it waited for has ended.
BrowserCloseResume ==
    /\ closer = "wait"
    /\ ~RestartPending(BState)
    /\ CloseNow
    /\ UNCHANGED <<isReadyPromise, rbShuttingDown, boot, svars, cvars>>

\* close(): browser.close() is over.
BrowserCloseDone ==
    /\ closer = "closing"
    /\ closer' = "done"
    /\ browser' = 0
    /\ UNCHANGED <<proc, retryCount, restartPromise, restart, caller, isReadyPromise,
                   rbShuttingDown, boot, svars, cvars>>

NextBrowser ==
    \/ \E ok \in BOOLEAN : BootDone(ok)
    \/ \E c \in Callers, op \in {"isReady", "newPage"} : Call(c, op)
    \/ \E c \in Callers, ok \in BOOLEAN, dead \in BOOLEAN : CreateDone(c, ok, dead)
    \/ \E c \in Callers, ok \in BOOLEAN : RetryDone(c, ok)
    \/ \E g \in Browsers : Crash(g)
    \/ \E s \in Restarts : RestartDelayDone(s)
    \/ \E s \in Restarts : RestartCloseDone(s)
    \/ \E s \in Restarts, ok \in BOOLEAN : RestartLaunchDone(s, ok)
    \/ BrowserClose
    \/ BrowserCloseResume
    \/ BrowserCloseDone

SpecBrowser == Init /\ [][NextBrowser]_vars

\* ------------------------------------------------------------------------
\* The /health route
\* ------------------------------------------------------------------------

\* healthyRenderers: the slots that are not null.
HealthyRenderers(rs) == Cardinality({i \in Slots : rs[i] # 0})

\* The status field of the response of /health.
HealthStatus(rs, shut) == IF HealthyRenderers(rs) > 0 /\ ~shut THEN "ok" ELSE "degraded"

\* ------------------------------------------------------------------------
\* stop() called more than once, with cleanup() and RendererBrowser.close()
\* step by step; no request is in the queue
\*   x = [cl: cleanups, calls: closeCalls, nl: nulled]
\* ------------------------------------------------------------------------

\* close() is called on the object field r of renderer o holds, for stop()
\* call k, and awaited.
CloseField(x, k, o, r) ==
    [x EXCEPT !.cl = @ \cup {[k |-> k, o |-> o, r |-> r]}, !.calls[o][r] = @ + 1]

\* RendererBrowser.close() up to its await: if (this.browser) browser.close().
close(x, k, o) == IF "browser" \in x.nl[o] THEN x ELSE CloseField(x, k, o, "browser")

\* WebMaplibreGLRenderer.cleanup() up to its first await: if (this.page)
\* page.close(), else this.browser.close().
cleanup(x, k, o) == IF "page" \in x.nl[o] THEN close(x, k, o) ELSE CloseField(x, k, o, "page")

\* stop(): this.renderers.map(...) from slot i on: cleanup() of every
\* renderer a slot holds.
RECURSIVE CleanupAll(_, _, _)
CleanupAll(x, k, i) ==
    IF i = RendererCount THEN x
    ELSE CleanupAll(IF renderers[i] # 0 THEN cleanup(x, k, renderers[i]) ELSE x, k, i + 1)

\* stop() call k past Promise.all(cleanupPromises), once no close() it awaits
\* is open: this.renderers = new Array(rendererCount).fill(null).
AfterCleanups(x, k) ==
    IF \E c \in x.cl : c.k = k
    THEN /\ stopCall' = [stopCall EXCEPT ![k] = "cleanup"]
         /\ renderers' = renderers
    ELSE /\ stopCall' = [stopCall EXCEPT ![k] = "done"]
         /\ renderers' = [i \in Slots |-> 0]

\* stop(), call k, after start() has returned: isShuttingDown, pause(), and,
\* as onIdle() of an idle queue resolves at once, the cleanup() of every
\* renderer, in one turn.
stop(k) ==
    /\ stopCall[k] = "idle"
    /\ \A j \in StopCalls : j < k => stopCall[j] # "idle"
    /\ startPc \in {"ok", "failed"}
    /\ QueueIdle
    /\ isShuttingDown' = TRUE
    /\ isPaused' = TRUE
    /\ LET x == CleanupAll([cl |-> cleanups, calls |-> closeCalls, nl |-> nulled], k, 0) IN
       /\ cleanups' = x.cl
       /\ closeCalls' = x.calls
       /\ AfterCleanups(x, k)
    /\ obj' = [o \in Objs |-> IF o \in {renderers[i] : i \in Slots} THEN "closed" ELSE obj[o]]
    /\ UNCHANGED <<nulled, route, shared, req, sess, gs, task, queue, currentRendererIndex, bg, hc, startPc, stopPc,
                   faults, dispatched, bvars>>

\* A close() that a cleanup() awaits settles: the field is set to null; after
\* page.close() the cleanup goes on with this.browser.close().
CloseDone(c) ==
    /\ c \in cleanups
    /\ nulled' = [nulled EXCEPT ![c.o] = @ \cup {c.r}]
    /\ LET x0 == [cl |-> cleanups \ {c}, calls |-> closeCalls, nl |-> nulled']
           x == IF c.r = "page" THEN close(x0, c.k, c.o) ELSE x0
       IN  /\ cleanups' = x.cl
           /\ closeCalls' = x.calls
           /\ AfterCleanups(x, c.k)
    /\ UNCHANGED <<route, shared, req, sess, gs, task, queue, currentRendererIndex, obj, bg, hc, isShuttingDown,
                   isPaused, startPc, stopPc, faults, dispatched, bvars>>

NextStop ==
    \/ StartBegin
    \/ \E b \in bg, ok \in BOOLEAN : BgInitDone(b, ok)
    \/ \E k \in StopCalls : stop(k)
    \/ \E c \in cleanups : CloseDone(c)

SpecStop == Init /\ [][NextStop]_vars

\* ------------------------------------------------------------------------
\* The /render route before addToRenderQueue, step by step
\* ------------------------------------------------------------------------

\* A request arrives at the /render route: 503 when isShuttingDown, else the
\* handler awaits req.json().
Arrive(t) ==
    /\ ~CanDispatch
    /\ startPc # "idle"
    /\ task[t].pc = "new"
    /\ route[t] = "none"
    /\ \A u \in Tasks : u < t => route[u] # "none"
    /\ route' = [route EXCEPT ![t] = IF isShuttingDown THEN "refused" ELSE "reading"]
    /\ UNCHANGED <<svars, bvars, stopCall, cleanups, nulled, closeCalls, shared, req, sess, gs>>

\* A route that calls addToRenderQueue before it looks at the result of the
\* validation.
AdmitUnchecked(t, valid) ==
    /\ ~CanDispatch
    /\ route[t] = "reading"
    /\ route' = [route EXCEPT ![t] = IF valid THEN "added" ELSE "invalid"]
    /\ task' = [task EXCEPT ![t].pc = "queued"]
    /\ queue' = Enqueue(queue, t)
    /\ UNCHANGED <<bvars, stopCall, cleanups, nulled, closeCalls, shared, req, sess, gs, renderers,
                   currentRendererIndex, obj, bg, hc, isShuttingDown, isPaused, startPc,
                   stopPc, faults, dispatched>>

\* req.json() returns: 400 for a body that fails validation, else
\* addToRenderQueue.
Admit(t, valid) ==
    /\ ~CanDispatch
    /\ route[t] = "reading"
    /\ route' = [route EXCEPT ![t] = IF valid THEN "added" ELSE "invalid"]
    /\ task' = IF valid THEN [task EXCEPT ![t].pc = "queued"] ELSE task
    /\ queue' = IF valid THEN Enqueue(queue, t) ELSE queue
    /\ UNCHANGED <<bvars, stopCall, cleanups, nulled, closeCalls, shared, req, sess, gs, renderers,
                   currentRendererIndex, obj, bg, hc, isShuttingDown, isPaused, startPc,
                   stopPc, faults, dispatched>>

NextAdmit ==
    \/ \E t \in Tasks : Arrive(t)
    \/ \E t \in Tasks, valid \in {SafeParse(b) : b \in Bodies} : Admit(t, valid)
    \/ Dispatch
    \/ \E t \in Tasks : EvaluateReturn(t)
    \/ StartBegin
    \/ \E b \in bg, ok \in BOOLEAN : BgInitDone(b, ok)
    \/ StopBegin
    \/ \E byTimer \in BOOLEAN : StopWake(byTimer)
    \/ StopDone

SpecAdmit == Init /\ [][NextAdmit]_vars

\* ------------------------------------------------------------------------
\* src/server.ts: the server whose renderers share one RendererBrowser
\*   shared.slots[i]   the Browser object the page of renderers[i] belongs to
\*                     (0: renderers[i] is null)
\*   shared.handler    the Browser objects that carry the handler calling
\*                     restart()
\* ------------------------------------------------------------------------

\* initRenderer(i) of start() or of a dispatched task, for a slot that is
\* null: a renderer with a page of the running browser.
SharedInit(i) ==
    /\ boot = "ok"
    /\ shared.slots[i] = 0
    /\ browser # 0 /\ proc[browser] = "up"
    /\ shared' = [shared EXCEPT !.slots[i] = browser]
    /\ UNCHANGED <<svars, bvars, stopCall, cleanups, nulled, closeCalls, route, req, sess, gs>>

\* processRenderTask on slot i fails with a critical error, its page being
\* one of a dead browser: cleanup() and renderers[i] = null.
SharedCritical(i) ==
    /\ shared.slots[i] # 0
    /\ proc[shared.slots[i]] = "dead"
    /\ shared' = [shared EXCEPT !.slots[i] = 0]
    /\ UNCHANGED <<svars, bvars, stopCall, cleanups, nulled, closeCalls, route, req, sess, gs>>

NextShared ==
    \/ \E ok \in BOOLEAN : BootDone(ok)
    \/ \E i \in Slots : SharedInit(i)
    \/ \E i \in Slots : SharedCritical(i)
    \/ \E g \in Browsers : Crash(g)
    \/ \E s \in Restarts : RestartDelayDone(s)
    \/ \E s \in Restarts : RestartCloseDone(s)
    \/ \E s \in Restarts, ok \in BOOLEAN : RestartLaunchDone(s, ok)

SpecShared == Init /\ [][NextShared]_vars

\* ------------------------------------------------------------------------
\* One request body from the /render route to createMapImage
\*   req.body     the body
\*   req.pc       "none", "received", "rejected" (400), "accepted", "exporting"
\*                (exportOptions built), "created" (createMapImage called)
\*   req.quality  the quality on the engine's scale, in hundredths
\*   req.ratio    the pixel ratio on its way to the engine, in hundredths
\* ------------------------------------------------------------------------

\* exportOptions.quality for the quality field q of the body, in hundredths:
\* processRenderTask passes q ?? 100, attemptMapImageGeneration computes
\* Math.max(Math.min((quality || 100) / 100, 1), 0).
ExportQuality(q) ==
    LET passed == IF q = Undefined THEN 100 ELSE q
        truthy == IF passed = 0 THEN 100 ELSE passed
        capped == IF truthy < 100 THEN truthy ELSE 100
    IN  IF capped > 0 THEN capped ELSE 0

\* A ratio taken as it comes when the body has one.
PixelRatioRaw(r) == IF r = Undefined THEN 100 ELSE r

\* processRenderTask: pixelRatio: task.body.ratio || 1, which the spread of
\* exportOptions and options.pixelRatio || 1 of map.html leave as it is.
PixelRatio(r) == IF r = Undefined \/ r = 0 THEN 100 ELSE r

\* map.html, createMapImage: options.quality || 1, in hundredths.
MapQuality(e) == IF e = 0 THEN 100 ELSE e

\* A body arrives at the /render route.
Receive(b) ==
    /\ req.pc = "none"
    /\ req' = [req EXCEPT !.body = b, !.pc = "received"]
    /\ UNCHANGED <<svars, bvars, stopCall, cleanups, nulled, closeCalls, route, shared, sess, gs>>

\* RequestSchema.safeParse: 400 or addToRenderQueue.
Validate ==
    /\ req.pc = "received"
    /\ req' = [req EXCEPT !.pc = IF SafeParse(req.body) THEN "accepted" ELSE "rejected"]
    /\ UNCHANGED <<svars, bvars, stopCall, cleanups, nulled, closeCalls, route, shared, sess, gs>>

\* processRenderTask calls getMapImage, which builds exportOptions.
Export ==
    /\ req.pc = "accepted"
    /\ req' = [req EXCEPT !.pc = "exporting", !.quality = ExportQuality(req.body.quality),
                          !.ratio = PixelRatio(req.body.ratio)]
    /\ UNCHANGED <<svars, bvars, stopCall, cleanups, nulled, closeCalls, route, shared, sess, gs>>

\* page.evaluate runs createMapImage with exportOptions.
CreateMapImage ==
    /\ req.pc = "exporting"
    /\ req' = [req EXCEPT !.pc = "created", !.quality = MapQuality(req.quality),
                          !.ratio = IF req.ratio = 0 THEN 100 ELSE req.ratio]
    /\ UNCHANGED <<svars, bvars, stopCall, cleanups, nulled, closeCalls, route, shared, sess, gs>>

NextRequest ==
    \/ \E b \in Bodies : Receive(b)
    \/ Validate
    \/ Export
    \/ CreateMapImage

SpecRequest == Init /\ [][NextRequest]_vars

\* ------------------------------------------------------------------------
\* src/server.ts and src/renderer.ts: the session protocol of a task
\* ------------------------------------------------------------------------
\*
\*   sess.cur      currentRendererIndex of this server
\*   sess.page[i]  the renderer of slot i: "none" (slot null), "loading" (a
\*                 renderer whose page is null) or "up"
\*   sess.chan[i]  the page.evaluate calls sent to the page and not yet run
\*   sess.tk[t]    processRenderTask t
\* The page runs the calls of its connection in the order they were sent.

ovars == <<svars, bvars, stopCall, cleanups, nulled, closeCalls, route, shared, req>>

\* The calls of t that have settled.
SettledCalls(k) == {k.log[n] : n \in 1..k.nd}

\* Promise.all over a single settled call.
ConfigAnySettled(d) == \E n \in 1..Len(ConfigCalls) : ConfigCalls[n] \in d

\* Promise.all of the three configuration calls is fulfilled.
ConfigSettled(d) == \A n \in 1..Len(ConfigCalls) : ConfigCalls[n] \in d

\* Task t calls page.evaluate for each of `calls`, in this order.
RECURSIVE Send(_, _, _)
Send(s, t, calls) ==
    IF calls = <<>> THEN s
    ELSE Send([s EXCEPT !.chan[s.tk[t].idx] = Append(@, [t |-> t, call |-> Head(calls)]),
                        !.tk[t].iss = Append(@, Head(calls))],
              t, Tail(calls))

\* processRenderTask inside its try block with the renderer of its slot.
Configure(s, t) ==
    IF s.page[s.tk[t].idx] = "up"
    THEN Send([s EXCEPT !.tk[t].pc = "config"], t, ConfigCalls)
    ELSE [s EXCEPT !.tk[t].pc = "failed"]

\* The catch block of processRenderTask: a critical error cleans up the
\* renderer and sets the slot to null; the calls still waiting on the closed
\* page are rejected. The task is rejected.
SessCatch(s, t, crit) ==
    LET i == s.tk[t].idx
        hit == {s.chan[i][n].t : n \in 1..Len(s.chan[i])}
    IN  IF crit
        THEN [s EXCEPT !.page[i] = "none", !.chan[i] = <<>>,
                       !.tk = [u \in Sessions |->
                                  IF u = t \/ (u \in hit /\ @[u].pc \in {"config", "wait", "capture"})
                                  THEN [@[u] EXCEPT !.pc = "failed"] ELSE @[u]]]
        ELSE [s EXCEPT !.tk[t].pc = "failed"]

\* PQueue starts the job of t: getNextRendererIndex, then initRenderer, which
\* awaits initWithHTML when the slot is null.
SessBegin(t) ==
    /\ sess.tk[t].pc = "new"
    /\ Cardinality({u \in Sessions : sess.tk[u].pc \in {"init", "config", "wait", "capture"}})
           < RendererCount
    /\ LET i == (sess.cur + 1) % RendererCount
           s == [sess EXCEPT !.cur = i, !.tk[t].idx = i]
       IN  sess' = IF s.page[i] = "none"
                   THEN [s EXCEPT !.page[i] = "loading", !.tk[t].pc = "init"]
                   ELSE Configure(s, t)
    /\ UNCHANGED <<ovars, gs>>

\* initWithHTML of the renderer that t created settles.
SessInitDone(t, ok, crit) ==
    /\ sess.tk[t].pc = "init"
    /\ sess' = IF ok THEN Configure([sess EXCEPT !.page[sess.tk[t].idx] = "up"], t)
               ELSE SessCatch(sess, t, crit)
    /\ UNCHANGED <<ovars, gs>>

\* The page of slot i runs the next call it received.
PageRun(i) ==
    /\ sess.chan[i] # <<>>
    /\ LET m == Head(sess.chan[i]) IN
       sess' = [sess EXCEPT !.chan[i] = Tail(@), !.tk[m.t].log = Append(@, m.call)]
    /\ UNCHANGED <<ovars, gs>>

\* The next call of t that the page has run settles: processRenderTask goes
\* on after its await, or its catch block runs.
SessSettle(t, ok, crit) ==
    LET k == sess.tk[t]
        call == k.log[k.nd + 1]
        s == [sess EXCEPT !.tk[t].nd = @ + 1]
        d == SettledCalls(s.tk[t])
    IN  /\ k.nd < Len(k.log)
        /\ ok => ~crit
        /\ sess' = IF k.pc \notin {"config", "wait", "capture"} THEN s
                   ELSE IF ~ok THEN SessCatch(s, t, crit)
                   ELSE IF k.pc = "config"
                   THEN IF ConfigSettled(d) THEN Send([s EXCEPT !.tk[t].pc = "wait"], t, <<"wait">>)
                        ELSE s
                   ELSE IF k.pc = "wait"
                   THEN Send([s EXCEPT !.tk[t].pc = "capture"], t, <<"capture">>)
                   ELSE [s EXCEPT !.tk[t].pc = "done"]
        /\ UNCHANGED <<ovars, gs>>

NextSession ==
    \/ \E t \in Sessions : SessBegin(t)
    \/ \E t \in Sessions, ok, crit \in BOOLEAN : SessInitDone(t, ok, crit)
    \/ \E i \in Slots : PageRun(i)
    \/ \E t \in Sessions, ok, crit \in BOOLEAN : SessSettle(t, ok, crit)

SpecSession == Init /\ [][NextSession]_vars

\* ------------------------------------------------------------------------
\* src/index.ts: the handlers of signals and errors, gracefulShutdown
\* ------------------------------------------------------------------------

Signals == {"SIGINT", "SIGTERM", "SIGHUP"}

\* gracefulShutdown without the check of isShuttingDown.
gracefulShutdownUnguarded(g) ==
    [g EXCEPT !.flag = TRUE, !.timer = TRUE, !.stops = @ + 1, !.stop = "running"]

\* gracefulShutdown up to its await of server.stop().
gracefulShutdown(g) ==
    IF g.flag THEN g
    ELSE [g EXCEPT !.flag = TRUE, !.timer = TRUE, !.stops = @ + 1, !.stop = "running"]

\* The process runs and one more signal or error reaches it.
Reaches(kind) ==
    /\ gs.exit = 0 - 1
    /\ Len(gs.seen) < MaxEvents
    /\ UNCHANGED <<ovars, sess>>

\* SIGINT, SIGTERM or SIGHUP.
Signal(sig) ==
    /\ Reaches(sig)
    /\ gs' = gracefulShutdown([gs EXCEPT !.seen = Append(@, sig)])

\* The handler of 'uncaughtException'.
UncaughtException ==
    /\ Reaches("uncaughtException")
    /\ LET g == [gs EXCEPT !.seen = Append(@, "uncaughtException")] IN
       gs' = IF ~g.flag THEN gracefulShutdown(g) ELSE [g EXCEPT !.exit = 1]

\* The handler of 'unhandledRejection'.
UnhandledRejection ==
    /\ Reaches("unhandledRejection")
    /\ LET g == [gs EXCEPT !.seen = Append(@, "unhandledRejection")] IN
       gs' = IF ~g.flag THEN gracefulShutdown(g) ELSE g

\* server.stop(), awaited by gracefulShutdown, settles: clearTimeout and
\* process.exit(0), or process.exit(1) in the catch block.
ShutdownStopSettles(ok) ==
    /\ gs.exit = 0 - 1
    /\ gs.stop = "running"
    /\ gs' = IF ok THEN [gs EXCEPT !.stop = "resolved", !.timer = FALSE, !.exit = 0]
             ELSE [gs EXCEPT !.stop = "rejected", !.exit = 1]
    /\ UNCHANGED <<ovars, sess>>

\* The 45 s timer of gracefulShutdown fires.
ForcedExit ==
    /\ gs.exit = 0 - 1
    /\ gs.timer
    /\ gs' = [gs EXCEPT !.exit = 1, !.forced = TRUE]
    /\ UNCHANGED <<ovars, sess>>

NextShutdown ==
    \/ \E sig \in Signals : Signal(sig)
    \/ UncaughtException
    \/ UnhandledRejection
    \/ \E ok \in BOOLEAN : ShutdownStopSettles(ok)
    \/ ForcedExit

\* A timer that is set fires unless it is cleared or the process exits.
SpecShutdown == Init /\ [][NextShutdown]_vars /\ WF_vars(ForcedExit)

\* ------------------------------------------------------------------------
\* The specifications
\* ------------------------------------------------------------------------

Next ==
    \/ \E t \in Tasks : Submit(t)
    \/ Dispatch
    \/ \E t \in Tasks : QueueTimeout(t)
    \/ \E t \in Tasks, ok \in BOOLEAN, crit \in BOOLEAN : InitDone(t, ok, crit)
    \/ \E t \in Tasks, ok \in BOOLEAN, br \in BOOLEAN, crit \in BOOLEAN :
          PageInitDone(t, ok, br, crit)
    \/ \E t \in Tasks : EvaluateReturn(t)
    \/ \E t \in Tasks, br \in BOOLEAN, crit \in BOOLEAN : EvaluateFail(t, br, crit)
    \/ \E t \in Tasks : AttemptTimeout(t)
    \/ \E t \in Tasks : StaleEvaluateDone(t)
    \/ \E t \in Tasks : RecoverDone(t)
    \/ \E t \in Tasks : CleanupDone(t)
    \/ \E t \in Tasks : Deadline(t)
    \/ \E t \in Tasks : Abort(t)
    \/ StartBegin
    \/ \E b \in bg, ok \in BOOLEAN : BgInitDone(b, ok)
    \/ HealthTick
    \/ \E healthy \in BOOLEAN : HcProbeDone(healthy)
    \/ HcCleanupDone
    \/ \E ok \in BOOLEAN : HcInitDone(ok)
    \/ StopBegin
    \/ \E byTimer \in BOOLEAN : StopWake(byTimer)
    \/ StopDone

Spec == Init /\ [][Next]_vars

\* ------------------------------------------------------------------------
\* Properties of the render queue and the renderer slots
\* ------------------------------------------------------------------------

\* C1: the number of processRenderTask invocations that have started and not
\* yet returned is at most rendererCount in every reachable state.
C1_AtMostNRunning == Cardinality(Running) <= RendererCount

\* Task t is inside getMapImage.
InGetMapImage(t) == task[t].pc \in {"pageinit", "render", "recover"}

\* C2: no two tasks are inside getMapImage on the renderer of the same slot at
\* the same time.
C2_OneTaskPerSlot ==
    \A t, u \in Tasks :
        (t # u /\ InGetMapImage(t) /\ InGetMapImage(u))
            => ~(task[t].idx = task[u].idx /\ task[t].rend = task[u].rend)

\* C3: every submitted task is delivered an outcome: the service never comes
\* to a halt, with no step left to take, while a submitted task's promise is
\* still pending.
C3_EveryTaskGetsAnOutcome ==
    (\A t \in Tasks : task[t].pc # "new" => task[t].outcome # "pending")
        \/ ENABLED Next

\* C4: a task's promise that has been rejected is never resolved afterwards,
\* and one that has been resolved is never rejected afterwards.
C4_AtMostOneOutcome ==
    [][\A t \in Tasks :
          task[t].outcome # "pending" => task'[t].outcome = task[t].outcome]_vars

\* A task the 120 s timer or the queue's timeout rejected, whose
\* processRenderTask later called resolve with the image.
C4_Witness ==
    \E t \in Tasks : task[t].outcome = "rejected" /\ task[t].late = "resolved"

C6_AbortedBeforeDispatch ==
    [][\A t \in Tasks :
          (task[t].pc = "queued" /\ task[t].aborted /\ task'[t].pc # "queued")
              => /\ task'[t].pc = "done"
                 /\ task'[t].outcome = "rejected"
                 /\ task'[t].acquired = 0
                 /\ currentRendererIndex' = currentRendererIndex
                 /\ renderers' = renderers
                 /\ obj' = obj
                 /\ bg' = bg]_vars

\* A task aborted in the queue has been taken out of the queue while the
\* service runs.
C6_Witness ==
    \E t \in Tasks :
        /\ task[t].pc = "done" /\ task[t].aborted /\ task[t].acquired = 0
        /\ dispatched # <<>> /\ dispatched[Len(dispatched)] = t

C10_NoTaskOnInitializingSlot ==
    \A t \in Tasks : InGetMapImage(t) => obj[task[t].rend] # "init"

\* The step is one of task t's catch block: the task enters the cleanup of
\* its slot's renderer, or its processRenderTask returns.
CatchStep(t) ==
    \/ task[t].pc \notin {"new", "queued", "done", "cleanup"} /\ task'[t].pc = "cleanup"
    \/ task[t].pc \notin {"new", "queued", "done"} /\ task'[t].pc = "done"

\* C11: a step of the catch block of a task on slot i, the critical-error
\* path included, changes no other slot and no renderer of another slot,
\* settles no other task, and leaves every task that runs on another slot,
\* and the renderer it runs on, exactly as they were, so that it can still
\* complete with its own result.
C11_FailureIsolation ==
    [][\A t \in Tasks :
          CatchStep(t) =>
              /\ \A j \in Slots :
                    j # task[t].idx =>
                        /\ renderers'[j] = renderers[j]
                        /\ renderers[j] # 0 => obj'[renderers[j]] = obj[renderers[j]]
              /\ \A u \in Tasks :
                    u # t =>
                        /\ task'[u].outcome = task[u].outcome
                        /\ (u \in Running /\ task[u].idx # task[t].idx) =>
                              /\ task'[u] = task[u]
                              /\ task[u].rend # 0 =>
                                    obj'[task[u].rend] = obj[task[u].rend]]_vars

\* A task is in the cleanup of the critical-error path on its slot while
\* another task renders on the ready renderer of another slot.
C11_Witness ==
    \E t, u \in Tasks :
        /\ task[t].pc = "cleanup"
        /\ task[u].pc = "render" /\ task[u].idx # task[t].idx
        /\ renderers[task[u].idx] = task[u].rend
        /\ obj[task[u].rend] = "ready"

\* Nothing is in flight: no task runs, no initRenderer call is open and no
\* health-check pass is under way.
Quiet == Running = {} /\ bg = {} /\ hc = HcIdle

\* No initWithHTML / initializePage of a renderer failed, except on a
\* renderer that the service itself had cleaned up.
EngineSound == \A k \in 1..Len(faults) : faults[k] # "init"

\* C12: when the catch block of a task has torn down slot i and started its
\* reinitialization, and no initialization fails by the engine's fault, the
\* service does not come to rest, outside shutdown, with slot i null or its
\* renderer not initialized.
C12_SelfHealing ==
    \A t \in Tasks :
        (task[t].torn >= 0 /\ Quiet /\ EngineSound /\ ~isShuttingDown)
            => /\ renderers[task[t].torn] # 0
               /\ obj[renderers[task[t].torn]] = "ready"

\* The slots that n calls of getNextRendererIndex in a row return, from
\* cursor cur, while the slots stay as they are.
RECURSIVE Selected(_, _, _)
Selected(rs, cur, n) ==
    IF n = 0 THEN {}
    ELSE LET i == getNextRendererIndex(rs, cur) IN {i} \cup Selected(rs, i, n - 1)

\* C13: a null slot is selected for lazy initialization by one of the next
\* rendererCount calls of getNextRendererIndex, also when another slot holds
\* a renderer.
C13_NullSlotSelected ==
    \A i \in Slots :
        (renderers[i] = 0 /\ Quiet /\ ~isShuttingDown /\ \E j \in Slots : renderers[j] # 0)
            => i \in Selected(renderers, currentRendererIndex, RendererCount)

\* C14: the 120 s deadline of a task runs from its dispatch: as long as a
\* dispatched task waits, unsettled, for its renderer's initialization or for
\* getMapImage, lazy initialization included, its deadline timer is set.
C14_DeadlineFromDispatch ==
    \A t \in Tasks :
        (task[t].pc \in {"init", "pageinit", "render", "recover"}
            /\ task[t].outcome = "pending")
            => task[t].armed

\* C15: when the last initRenderer call of start() has settled and the
\* service is not shutting down, start() returns normally if and only if
\* some slot holds an initialized renderer, and throws otherwise.
C15_StartSucceedsIffInitialized ==
    [][(startPc = "running" /\ startPc' # "running" /\ ~isShuttingDown)
          => /\ startPc' \in {"ok", "failed"}
             /\ startPc' = "ok" <=>
                   \E i \in Slots : renderers'[i] # 0 /\ obj'[renderers'[i]] = "ready"]_vars

\* C16: however the calls of stop() overlap, close() is called at most once
\* on the page and at most once on the browser of a renderer: a later call
\* of stop() never closes what an earlier one has closed.
C16_StopIdempotent ==
    \A o \in Objs, r \in Fields : closeCalls[o][r] <= 1

\* C17: once isShuttingDown is set, a request that is not in the queue yet
\* does not get into it: it is answered 503 (or 400), and the queue and the
\* slots stay as they are.
C17_NoAdmissionInShutdown ==
    [][isShuttingDown =>
          \A t \in Tasks :
              (task[t].pc = "new" /\ route'[t] # route[t])
                  => /\ route'[t] \in {"refused", "invalid"}
                     /\ queue' = queue
                     /\ renderers' = renderers]_vars

\* C18: stop() goes on to the cleanup of the renderers while a
\* processRenderTask is still executing only when the 30 s timer has won the
\* race, that is only when the queue is not idle.
C18_TeardownAfterTasks ==
    [][(stopPc = "wait" /\ stopPc' = "cleaning" /\ Running # {}) => ~QueueIdle]_vars

\* ------------------------------------------------------------------------
\* Properties of the RendererBrowser restart
\* ------------------------------------------------------------------------

\* C8: whatever crash signals arrive, at most one restart sequence is in
\* flight, it is the one restartPromise holds, a dead browser has a restart in
\* flight or failed, and retryCount counts exactly the attempts of that one
\* sequence, one for each call of puppeteer.launch.
C8_SingleFlightRestart ==
    /\ Cardinality(InFlight(restart)) <= 1
    /\ (browser # 0 /\ proc[browser] = "dead" /\ ~rbShuttingDown) => restartPromise # 0
    /\ \A s \in InFlight(restart) :
          /\ restartPromise = s
          /\ retryCount = restart[s].n
          /\ ~rbShuttingDown =>
                restart[s].n = restart[s].launched
                                  + (IF restart[s].pc = "launching" THEN 0 ELSE 1)

\* One restart sequence met a 'disconnected' event and a newPage failure while
\* it was in flight, and relaunched the browser with its first attempt.
C8_Witness ==
    \E s \in Restarts :
        /\ restart[s].pc = "ok" /\ restart[s].seen = {"disconnected", "newPage"}
        /\ restart[s].n = 1 /\ restart[s].launched = 1

\* C9: no call of newPage calls browser.newPage() while a restart sequence is
\* in flight.
C9_CallersWaitForRestart == \A c \in Callers : ~caller[c].stale

\* C19: a launch failure is fatal only after maxRetries calls of
\* puppeteer.launch, for the launch of the constructor as for a restart
\* sequence, and no sequence calls puppeteer.launch more than maxRetries
\* times.
C19_LaunchRetried ==
    /\ \A s \in Restarts : restart[s].launched <= MaxRetries
    /\ \A s \in Restarts :
          (restart[s].pc = "failed" /\ ~rbShuttingDown) => restart[s].launched >= MaxRetries
    /\ boot = "failed" => BootLaunches >= MaxRetries

\* C20: from the step in which close() sets isShuttingDown on, no restart
\* sequence starts, whatever disconnects or fails, the disconnect that close()
\* causes included, and every call of isReady() or newPage() made from then
\* on is rejected at once.
C20_ShutdownSuppressesRestart ==
    [][rbShuttingDown' =>
          /\ InFlight(restart') \subseteq InFlight(restart)
          /\ \A c \in Callers :
                (rbShuttingDown /\ caller[c].pc = "idle" /\ caller'[c].pc # "idle")
                    => (caller'[c].pc = "done" /\ caller'[c].result = "error")]_vars

\* close() has closed a running browser while one call of newPage awaited
\* browser.newPage(), a call made after it was rejected, and no restart
\* sequence has ever started.
C20_Witness ==
    /\ rbShuttingDown /\ boot = "ok" /\ closer = "closing"
    /\ browser # 0 /\ proc[browser] = "dead"
    /\ \A s \in Restarts : restart[s].pc = "none"
    /\ \E c, d \in Callers :
          /\ caller[c].pc = "retry" /\ caller[c].target = browser
          /\ caller[d].pc = "done" /\ caller[d].result = "error" /\ caller[d].target = 0

\* C21: a slot holds a page of a browser that has disconnected only while
\* the server's restart routine deals with that disconnect, that is, only
\* when the browser carries the handler that calls restart().
C21_RestartRoutineRuns ==
    \A i \in Slots :
        (shared.slots[i] # 0 /\ proc[shared.slots[i]] = "dead")
            => shared.slots[i] \in shared.handler

\* C22: outside shutdown the status /health reports is "ok" when every slot
\* is healthy, "degraded" when some but not all are, "error" when none is.
C22_StatusBySlotHealth ==
    ~isShuttingDown =>
        HealthStatus(renderers, isShuttingDown) =
            (IF HealthyRenderers(renderers) = RendererCount THEN "ok"
             ELSE IF HealthyRenderers(renderers) > 0 THEN "degraded" ELSE "error")

C25_HeightRange ==
    req.pc = "accepted" =>
        /\ 10 <= req.body.height /\ req.body.height <= 4000
        /\ 10 <= req.body.width /\ req.body.width <= 6000

\* C26: for a quality q in 0..100 of the body, the engine gets q / 100: in
\* hundredths, exportOptions.quality is q, and so is the quality createMapImage
\* uses.
C26_QualityNormalized ==
    (req.pc \in {"exporting", "created"} /\ req.body.quality # Undefined)
        => req.quality = req.body.quality

\* C24: when the catch block of a task inside getMapImage on slot i takes an
\* error that isCriticalError rejects, the task is rejected and renderers[i]
\* and its renderer are left as they are; when it takes a critical one, the
\* renderer in the slot is cleaned up with the task not yet rejected by the
\* catch block, and the step that ends the cleanup leaves the task rejected
\* and the slot null or, reinitializeRenderer having started, with a new
\* renderer.
C24_ClassificationDecidesSlot ==
    [][\A t \in Tasks :
          LET i == task[t].idx
              o == renderers[i]
          IN  /\ (InGetMapImage(t) /\ task'[t].err = "opaque" /\ task[t].err = "none")
                    => /\ renderers' = renderers
                       /\ o # 0 => (obj'[o] = "closed" => obj[o] = "closed")
                       /\ task'[t].pc = "done" /\ task'[t].outcome # "pending"
              /\ (InGetMapImage(t) /\ task'[t].err = "critical" /\ task[t].err = "none"
                      /\ o # 0)
                    => /\ task'[t].pc = "cleanup" /\ obj'[o] = "closed"
                       /\ renderers' = renderers
                       /\ task'[t].outcome = task[t].outcome
              /\ (task[t].pc = "cleanup" /\ task'[t].pc = "done")
                    => /\ task[t].err = "critical"
                       /\ task'[t].outcome # "pending"
                       /\ renderers'[i] = 0 \/ obj'[renderers'[i]] = "init"]_vars

\* A task has been rejected for an opaque error with its renderer still ready
\* in its slot, and another one has been rejected for a critical error whose
\* slot the catch block set to null.
C24_Witness ==
    \E t, u \in Tasks :
        /\ task[t].pc = "done" /\ task[t].err = "opaque" /\ task[t].outcome = "rejected"
        /\ \E i \in Slots : renderers[i] # 0 /\ obj[renderers[i]] = "ready"
        /\ task[u].pc = "done" /\ task[u].err = "critical" /\ task[u].outcome = "rejected"
        /\ task[u].torn \in Slots

\* C27: a call of getNextRendererIndex that finds every slot null returns the
\* index after the cursor, (cursor + 1) mod N, and leaves the cursor there.
C27_NextIndexWhenAllNull ==
    [][\A t \in Tasks :
          (task'[t].acquired = task[t].acquired + 1 /\ \A i \in Slots : renderers[i] = 0)
              => currentRendererIndex' = (currentRendererIndex + 1) % RendererCount]_vars

\* C28: a call of getNextRendererIndex leaves the cursor on the index it
\* returns, which is a slot index and, when some slot holds a renderer, the
\* first slot after the old cursor, in cyclic order, that holds one.
C28_NextIndexSkipsNull ==
    [][\A t \in Tasks :
          task'[t].acquired = task[t].acquired + 1
              => /\ currentRendererIndex' \in Slots
                 /\ task'[t].pc # "done" => task'[t].idx = currentRendererIndex'
                 /\ (\E i \in Slots : renderers[i] # 0)
                       => \E k \in 1..RendererCount :
                             /\ currentRendererIndex' = (currentRendererIndex + k) % RendererCount
                             /\ renderers[currentRendererIndex'] # 0
                             /\ \A j \in 1..(k - 1) :
                                   renderers[(currentRendererIndex + j) % RendererCount] = 0]_vars

\* A call of getNextRendererIndex has skipped a null slot: the slot after the
\* cursor is null and the task runs on the cursor's own slot once more.
C28_Witness ==
    \E t \in Tasks :
        /\ task[t].pc = "render" /\ task[t].idx = currentRendererIndex
        /\ renderers[(currentRendererIndex + 1) % RendererCount] = 0
        /\ Cardinality({u \in Tasks : task[u].acquired > 0}) > 1

\* The initRenderer(i) calls in progress: those of start() and of the
\* critical-error path, the one of the health-check pass, and the lazy ones
\* of dispatched tasks.
InitCalls(i) ==
    Cardinality({b \in bg : b.i = i})
        + (IF hc.pc \in {"cleanup", "init"} /\ hc.i = i THEN 1 ELSE 0)
        + Cardinality({t \in Tasks : task[t].pc = "init" /\ task[t].idx = i})

\* C29: for every slot at most one initRenderer call is in progress.
C29_SingleFlightInit == \A i \in Slots : InitCalls(i) <= 1

\* C30: a health-check pass that reinitializes slot i does not keep a later
\* slot that holds a renderer waiting for its probe.
C30_ProbeDoesNotWait ==
    hc.pc \in {"cleanup", "init"} => ~\E j \in Slots : j > hc.i /\ renderers[j] # 0

\* C31: the health-check pass never cleans up a renderer while a task is
\* inside getMapImage on it (rendering, initializing its page or in the pause
\* of handleBrowserError).
C31_HealthCheckSparesBusy ==
    hc.pc = "cleanup" => ~\E t \in Tasks : InGetMapImage(t) /\ task[t].rend = hc.o

\* C32: getMapImage makes its second attempt only after the page recovery of
\* handleBrowserError, that is after a browser-related failure of the first.
C32_RetryOnlyAfterRecovery ==
    [][\A t \in Tasks :
          (task[t].attempt = 1 /\ task'[t].attempt = 2) => task[t].pc = "recover"]_vars

\* The calls of the session protocol in their order.
Protocol == ConfigCalls \o <<"wait", "capture">>

\* C33: per task, the page runs the calls in the order viewport, camera,
\* scene, wait, capture; the wait is issued only when the three configuration
\* calls have settled, and the capture only when the wait has settled.
C33_ProtocolOrder ==
    \A t \in Sessions :
        LET k == sess.tk[t] IN
        /\ k.log = SubSeq(Protocol, 1, Len(k.log))
        /\ k.iss = SubSeq(Protocol, 1, Len(k.iss))
        /\ Len(k.iss) >= 4 => ConfigSettled(SettledCalls(k))
        /\ Len(k.iss) = 5 => "wait" \in SettledCalls(k)

C33_Witness ==
    \E t, u \in Sessions :
        /\ t # u
        /\ sess.tk[t].pc = "done" /\ sess.tk[t].log = Protocol
        /\ sess.tk[u].idx = sess.tk[t].idx /\ sess.tk[u].log # <<>>

\* C34: the pixel ratio on its way to the engine is positive: 1 for a body
\* without ratio or with ratio 0, the body's ratio otherwise.
C34_RatioPositive ==
    req.pc \in {"exporting", "created"} =>
        /\ req.ratio > 0
        /\ req.ratio = IF req.body.ratio \in {Undefined, 0} THEN 100 ELSE req.body.ratio

C34_Witness ==
    req.pc = "created" /\ req.body.ratio = 0 /\ req.ratio = 100

\* C35: once close() of the RendererBrowser has returned, the browser field
\* is null and no engine process is up.
C35_ClosedMeansNoEngine ==
    closer = "done" => (browser = 0 /\ \A g \in Browsers : proc[g] # "up")

\* C36: once stop() has returned, every slot is null: no renderer is in a
\* slot or put into one afterwards.
C36_StoppedMeansNoRenderer ==
    stopPc = "done" => \A i \in Slots : renderers[i] = 0

\* C37: a renderer leaves its slot only after cleanup() has been called on
\* it.
C37_NoSessionLeak ==
    [][\A i \in Slots :
          (renderers[i] # 0 /\ renderers'[i] # renderers[i])
              => obj[renderers[i]] = "closed"]_vars

\* C38: while the RendererBrowser is not shutting down, restartPromise is
\* set exactly while a restart sequence is in flight, and then it is the
\* promise of that sequence.
C38_HandleClearedAfterRestart ==
    ~rbShuttingDown =>
        /\ restartPromise # 0 => restartPromise \in InFlight(restart)
        /\ InFlight(restart) # {} => restartPromise # 0

\* C39: retryCount stays within 0..maxRetries, is 0 after a successful
\* launch, and no restart sequence calls puppeteer.launch more than
\* maxRetries times.
C39_RetryCountBounded ==
    /\ 0 <= retryCount /\ retryCount <= MaxRetries
    /\ \A s \in Restarts : restart[s].launched <= MaxRetries /\ restart[s].n <= MaxRetries
    /\ restartPromise = 0 => retryCount = 0

C39_Witness ==
    \E s \in Restarts :
        restart[s].pc = "failed" /\ restart[s].launched = MaxRetries /\ retryCount = MaxRetries

\* C40: gracefulShutdown calls server.stop() at most once whatever signals
\* and errors arrive; the process exits with 0 only after stop() succeeded
\* and with 1 after stop() failed or the 45 s timer fired; and once a
\* shutdown has begun the process exits.
C40_ShutdownSingleShot ==
    /\ [](/\ gs.stops <= 1
          /\ gs.exit = 0 => gs.stop = "resolved"
          /\ gs.stop = "rejected" \/ gs.forced => gs.exit = 1)
    /\ (gs.flag ~> gs.exit # 0 - 1)

C40_Witness ==
    /\ gs.exit = 0
    /\ gs.stops = 1
    /\ Len(gs.seen) = MaxEvents
    /\ \E m, n \in 1..MaxEvents : gs.seen[m] \in Signals /\ gs.seen[n] \notin Signals

====
